---- MODULE Spec2Model ----
(***************************************************************************)
(* Model of the workflow analyzer (src/src/analyzer.py) and of the trigger *)
(* classifier of the GitHub client (src/src/github_client.py).             *)
(*                                                                         *)
(* Python floats are modelled as exact rationals [num, den] in lowest      *)
(* terms: every duration of the model is a whole number of minutes, so the *)
(* comparisons of the source are decided the same way.                     *)
(***************************************************************************)
EXTENDS Integers, Sequences, FiniteSets, TLC

(* ------------------------------ bounds -------------------------------- *)
\* Longest run collection built from freely chosen run records.
MaxRuns == 2
\* Longest run collection made of repetitions of one run record.
MaxBurst == 11
\* Longest list of trigger names in a trigger declaration.
MaxTriggers == 2
\* Longest run collection grown by reruns of the last workflow.
MaxFeed == 12

(* ----------------------------- constants ------------------------------ *)
\* The default of get_trend_analysis's days parameter.
DefaultDays == 15
\* per_page of the client's list requests.
PerPage == 100
\* The safety limits of the two pagination loops.
RunsPageLimit == 10
ReposPageLimit == 50

(* ------------------------- exact arithmetic --------------------------- *)
RECURSIVE GCD(_, _)
GCD(a, b) == IF b = 0 THEN a ELSE GCD(b, a % b)

Abs(x) == IF x < 0 THEN -x ELSE x

\* The number n/d (d > 0) in lowest terms.
Rat(n, d) == LET g == GCD(Abs(n), d) IN [num |-> n \div g, den |-> d \div g]

FromInt(n) == [num |-> n, den |-> 1]
RAdd(a, b) == Rat(a.num * b.den + b.num * a.den, a.den * b.den)
RSub(a, b) == Rat(a.num * b.den - b.num * a.den, a.den * b.den)
RMul(a, b) == Rat(a.num * b.num, a.den * b.den)
\* a / n for a positive integer n
RDivInt(a, n) == Rat(a.num, a.den * n)
RLess(a, b) == a.num * b.den < b.num * a.den
RGreater(a, b) == RLess(b, a)
RGeq(a, b) == ~RLess(a, b)
RMax(a, b) == IF RLess(a, b) THEN b ELSE a
RMin(a, b) == IF RLess(b, a) THEN b ELSE a

RECURSIVE RSum(_)
RSum(s) == IF s = <<>> THEN FromInt(0) ELSE RAdd(Head(s), RSum(Tail(s)))

RECURSIVE RMaxSeq(_)
RMaxSeq(s) == IF Len(s) = 1 THEN s[1] ELSE RMax(s[1], RMaxSeq(Tail(s)))

RECURSIVE RMinSeq(_)
RMinSeq(s) == IF Len(s) = 1 THEN s[1] ELSE RMin(s[1], RMinSeq(Tail(s)))

Max2(a, b) == IF a < b THEN b ELSE a

(* ------------------------------ strings ------------------------------- *)
\* A Python string is a sequence of words; the words of the model are the
\* trigger and event names below, "on", "jobs" and the texts of True.
TriggerNames ==
  {"pull_request", "pull_request_target", "push", "PUSH", "schedule",
   "workflow_dispatch", "release", "on"}

\* str.lower() on one word
LowerWord(w) ==
  CASE w = "PUSH" -> "push"
    [] w = "True" -> "true"
    [] OTHER -> w

\* str.lower()
Lower(s) == [i \in 1..Len(s) |-> LowerWord(s[i])]

\* Python's `kw in w` for a keyword and one word (case-sensitive substring).
InWord(kw, w) ==
  CASE kw = "pull_request" -> w \in {"pull_request", "pull_request_target"}
    [] OTHER -> w = kw

\* Python's `kw in s` on strings: the keyword occurs somewhere in the text.
InStr(kw, s) == \E i \in 1..Len(s) : InWord(kw, s[i])

(* ------------------------------- state -------------------------------- *)
VARIABLES
  threshold,   \* WorkflowAnalyzer.duration_threshold_minutes
  runs,        \* the run collection handed to analyze_workflows
  stats,       \* the list analyze_workflows returned
  pc,          \* "input" while runs are collected, "analyzed" afterwards
  content,     \* the workflow file content handed to the classifier
  analysis,    \* the profile the classifier returned
  cpc,         \* "fetched" before the classifier ran, "classified" afterwards,
               \* "raised" when the classifier let an exception out
  op,          \* the analyzer operation called last on the analysis
  result       \* what that operation returned

vars == <<threshold, runs, stats, pc, content, analysis, cpc, op, result>>

\* Python's None
None == [isNone |-> TRUE]


(* --------------------- trigger declarations (input) -------------------- *)
\* A workflow file content is None or a text.  A text is described by how
\* PyYAML reads it and by the words it is made of:
\*   syntax "empty"   the empty string
\*          "invalid" yaml.safe_load raises (e.g. "{{ push")
\*          "null"    only comments or blanks: loads as None
\*          "scalar"  plain words: loads as one scalar
\*          "list"    a top-level sequence of plain words
\*          "map"     a keyed document; key tells how its trigger section is
\*                    keyed ("plain": on:, "quoted": "on":, "absent": the
\*                    document has no trigger section), shape the form of the
\*                    section ("str", "list", "map", "null")
\*   names   the words of the text after the key, in order.
Text(syntax, key, shape, names) ==
  [syntax |-> syntax, key |-> key, shape |-> shape, names |-> names]

NameSeqs == UNION {[1..n -> TriggerNames] : n \in 0..MaxTriggers}

Contents ==
  {None, Text("empty", "-", "-", <<>>)}
  \cup {Text(sx, "-", "-", ns) : sx \in {"invalid", "null"}, ns \in NameSeqs}
  \cup {Text(sx, "-", "-", ns) : sx \in {"scalar", "list"}, ns \in NameSeqs \ {<<>>}}
  \cup {Text("map", "absent", "-", ns) : ns \in NameSeqs}
  \cup {Text("map", k, "null", <<>>) : k \in {"plain", "quoted"}}
  \cup {Text("map", k, "str", ns) : k \in {"plain", "quoted"},
                                    ns \in {n \in NameSeqs : Len(n) = 1}}
  \cup {Text("map", k, sh, ns) : k \in {"plain", "quoted"}, sh \in {"list", "map"},
                                 ns \in NameSeqs}

\* The raw text of a content, as its words.
RawText(c) ==
  CASE c.syntax = "empty" -> <<>>
    [] c.syntax = "map" /\ c.key \in {"plain", "quoted"} -> <<"on">> \o c.names
    [] c.syntax = "map" /\ c.key = "absent" -> <<"jobs">> \o c.names
    [] OTHER -> c.names

(* ---------------------------- yaml.safe_load --------------------------- *)
\* Python values a document loads to: a str (its words), a bool (py: the
\* words of str(value)), None, a list (items) or a dict (keys, vals).
PyStr(s) == [type |-> "str", py |-> s]
PyTrue == [type |-> "bool", py |-> <<"True">>]
PyNone == [type |-> "NoneType", py |-> <<"None">>]
PyList(items) == [type |-> "list", items |-> items]
PyDict(keys, vals) == [type |-> "dict", keys |-> keys, vals |-> vals]
YamlError == [type |-> "error"]

\* PyYAML resolves a plain scalar by the YAML 1.1 rules: the plain word `on`
\* is the boolean True; a quoted one stays a string.
ResolvePlain(w) == IF w = "on" THEN PyTrue ELSE PyStr(<<w>>)

\* A sequence without its repeated elements (first occurrences kept).
RECURSIVE Dedup(_)
Dedup(s) ==
  IF s = <<>> THEN <<>>
  ELSE LET d == Dedup(SubSeq(s, 1, Len(s) - 1))
           x == s[Len(s)]
       IN IF \E i \in 1..Len(d) : d[i] = x THEN d ELSE Append(d, x)

\* The trigger section of a keyed document.
Section(c) ==
  CASE c.shape = "str" -> ResolvePlain(c.names[1])
    [] c.shape = "list" -> PyList([i \in 1..Len(c.names) |-> ResolvePlain(c.names[i])])
    [] c.shape = "map" ->
         LET ks == Dedup(c.names)
         IN PyDict([i \in 1..Len(ks) |-> ResolvePlain(ks[i])],
                   [i \in 1..Len(ks) |-> PyNone])
    [] OTHER -> PyNone

\* yaml.safe_load(content): the loaded value, or YamlError when it raises.
yaml_safe_load(c) ==
  CASE c.syntax = "invalid" -> YamlError
    [] c.syntax = "null" -> PyNone
    [] c.syntax = "scalar" ->
         IF Len(c.names) = 1 THEN ResolvePlain(c.names[1]) ELSE PyStr(c.names)
    [] c.syntax = "list" ->
         PyList([i \in 1..Len(c.names) |-> ResolvePlain(c.names[i])])
    [] c.syntax = "map" /\ c.key = "plain" -> PyDict(<<PyTrue>>, <<Section(c)>>)
    [] c.syntax = "map" /\ c.key = "quoted" -> PyDict(<<PyStr(<<"on">>)>>, <<Section(c)>>)
    [] OTHER -> PyDict(<<PyStr(<<"jobs">>)>>, <<PyNone>>)

(* ------------- GitHubClient._analyze_workflow_triggers ---------------- *)
DefaultAnalysis ==
  [is_pr_triggered |-> FALSE,
   is_push_triggered |-> FALSE,
   is_schedule_triggered |-> FALSE,
   is_manual_triggered |-> FALSE,
   trigger_frequency_score |-> 0,
   raw_triggers |-> <<>>]

\* `'on' in workflow_data` raises TypeError on a value that is no container.
OnTestRaises(d) == d.type \in {"NoneType", "bool"}

\* `'on' in workflow_data`: a key of a dict, an item of a list, a substring
\* of a str.
HasOn(d) ==
  CASE d.type = "dict" -> \E i \in 1..Len(d.keys) : d.keys[i] = PyStr(<<"on">>)
    [] d.type = "list" -> \E i \in 1..Len(d.items) : d.items[i] = PyStr(<<"on">>)
    [] d.type = "str" -> InStr("on", d.py)
    [] OTHER -> FALSE

\* workflow_data['on'] of a dict; on a list or a str the subscript raises.
OnValue(d) == d.vals[CHOOSE i \in 1..Len(d.keys) : d.keys[i] = PyStr(<<"on">>)]

\* The trigger list the section is reduced to.
TriggerList(t) ==
  CASE t.type = "str" -> <<t>>
    [] t.type = "dict" -> t.keys
    [] t.type = "list" -> t.items
    [] OTHER -> <<>>

\* One pass of the loop body over a trigger.
AnalyzeTrigger(a, trigger) ==
  LET t == Lower(trigger.py)
      pr == InStr("pull_request", t)
      push == InStr("push", t)
      sched == InStr("schedule", t)
      manual == InStr("workflow_dispatch", t)
  IN [a EXCEPT
        !.is_pr_triggered = @ \/ pr,
        !.is_push_triggered = @ \/ push,
        !.is_schedule_triggered = @ \/ sched,
        !.is_manual_triggered = @ \/ manual,
        !.trigger_frequency_score =
            @ + (IF pr THEN 3 ELSE 0) + (IF push THEN 2 ELSE 0)
              + (IF sched THEN 1 ELSE 0)]

RECURSIVE AnalyzeTriggers(_, _)
AnalyzeTriggers(a, triggers) ==
  IF triggers = <<>> THEN a
  ELSE AnalyzeTriggers(AnalyzeTrigger(a, Head(triggers)), Tail(triggers))

\* The except branch: keyword search in the lower-cased raw text.
TextAnalysis(a, c) ==
  LET content_lower == Lower(RawText(c))
      pr == InStr("pull_request", content_lower)
      push == InStr("push", content_lower)
      sched == InStr("schedule", content_lower)
  IN [a EXCEPT
        !.is_pr_triggered = @ \/ pr,
        !.is_push_triggered = @ \/ push,
        !.is_schedule_triggered = @ \/ sched,
        !.trigger_frequency_score =
            @ + (IF pr THEN 3 ELSE 0) + (IF push THEN 2 ELSE 0)
              + (IF sched THEN 1 ELSE 0)]

\* `not content`
Falsy(c) == c = None \/ c.syntax = "empty"

\* The try block raises: the load does, or the `in` test, or the subscript.
TryRaises(c) ==
  LET d == yaml_safe_load(c)
  IN \/ d.type = "error"
     \/ OnTestRaises(d)
     \/ d.type \in {"list", "str"} /\ HasOn(d)

\* The exception the try block raises: yaml.YAMLError from the load,
\* TypeError from the `in` test or the subscript; "none" when it completes.
TryException(c) ==
  LET d == yaml_safe_load(c)
  IN IF d.type = "error" THEN "YAMLError"
     ELSE IF OnTestRaises(d) \/ (d.type \in {"list", "str"} /\ HasOn(d))
     THEN "TypeError"
     ELSE "none"

\* Mutant: the handler written as `except yaml.YAMLError`.
CatchesYamlErrorOnly(e) == e = "YAMLError"

\* `except Exception as e` catches every exception of the try block.
Catches(e) == e \in {"YAMLError", "TypeError"}

\* An exception leaves the function: raised in the try block and not caught
\* (the handler itself only lower-cases and searches the text).
Propagates(c) ==
  ~Falsy(c) /\ TryException(c) # "none" /\ ~Catches(TryException(c))

GitHubClient_analyze_workflow_triggers(c) ==
  IF Falsy(c) THEN DefaultAnalysis
  ELSE IF TryRaises(c) THEN TextAnalysis(DefaultAnalysis, c)
  ELSE LET workflow_data == yaml_safe_load(c)
       IN IF HasOn(workflow_data)
          THEN LET triggers == TriggerList(OnValue(workflow_data))
               IN AnalyzeTriggers([DefaultAnalysis EXCEPT !.raw_triggers = triggers],
                                  triggers)
          ELSE DefaultAnalysis

(* ----------------------- run records (input) --------------------------- *)
\* The workflows of the model, as (repository, workflow name), and the
\* trigger declaration each one's file holds (None: no file could be read).
Workflows == {<<"org/a", "build">>, <<"org/b", "build">>}

Declaration(w) ==
  IF w = <<"org/a", "build">>
  THEN Text("map", "quoted", "list", <<"push", "schedule">>)
  ELSE None

Durations == {480, 720}        \* duration_seconds: 8 and 12 minutes
CreatedAts == {9, 65}          \* created_at in hours: day 0 09:00, day 2 17:00
Events == {<<"pull_request">>, <<"push">>, <<"schedule">>}
Thresholds == {5, 10}          \* duration_threshold_minutes

\* A WorkflowRun, with the fields the analyzer reads.  trigger_analysis is
\* None or the profile the client attached: the classification of the
\* workflow's declaration.
RunsOf(w) ==
  {[repository |-> w[1], workflow_name |-> w[2], duration_seconds |-> d,
    created_at |-> c, event |-> e, trigger_analysis |-> t] :
      d \in Durations, c \in CreatedAts, e \in Events,
      t \in {None, GitHubClient_analyze_workflow_triggers(Declaration(w))}}

RunPool == UNION {RunsOf(w) : w \in Workflows}

\* datetime.date() and datetime.hour of a created_at
DateOf(c) == c \div 24
HourOf(c) == c % 24

(* ------------------------- sorted(), stable ---------------------------- *)
\* Python's sorted(s, key=..., reverse=True), k[i] being the key of s[i]:
\* descending by key and stable, elements of equal key keep their order.
SortedDesc(s, k) ==
  LET Pos(i) == 1 + Cardinality({j \in 1..Len(s) :
                       \/ j < i /\ ~RGreater(k[i], k[j])
                       \/ j > i /\ RGreater(k[j], k[i])})
  IN [p \in 1..Len(s) |-> s[CHOOSE i \in 1..Len(s) : Pos(i) = p]]

(* --------------------------- WorkflowAnalyzer -------------------------- *)
Key(r) == <<r.repository, r.workflow_name>>

\* Mutant: a group opened for every run, its key never looked up.
GroupKeysPerRun(rs) == [i \in 1..Len(rs) |-> Key(rs[i])]

\* The keys of workflow_groups in insertion order (a dict keeps it).
GroupKeys(rs) == Dedup([i \in 1..Len(rs) |-> Key(rs[i])])

\* workflow_groups[key]
GroupOf(rs, k) == SelectSeq(rs, LAMBDA r : Key(r) = k)

_calculate_days_span(rs) ==
  IF rs = <<>> THEN 1
  ELSE LET dates == {DateOf(rs[i].created_at) : i \in 1..Len(rs)}
           min_date == CHOOSE d \in dates : \A e \in dates : d <= e
           max_date == CHOOSE d \in dates : \A e \in dates : e <= d
       IN Max2(max_date - min_date, 1)

\* `first_run.trigger_analysis` is truthy: not None and not an empty dict.
Truthy(t) == t # None

\* Mutant: the event fallback looks at the first run's event only.
AnalyzerTriggersFirstEventOnly(rs) ==
  IF rs = <<>>
  THEN [is_pr_triggered |-> FALSE, is_push_triggered |-> FALSE,
        is_high_frequency_trigger |-> FALSE, trigger_frequency_score |-> 0]
  ELSE LET first_run == rs[1]
           pr == InStr("pull_request", first_run.event)
           push == InStr("push", first_run.event)
           a == IF Truthy(first_run.trigger_analysis)
                THEN first_run.trigger_analysis
                ELSE [is_pr_triggered |-> pr,
                      is_push_triggered |-> push,
                      trigger_frequency_score |->
                          (IF pr THEN 3 ELSE 0) + (IF push THEN 2 ELSE 0)]
       IN [is_high_frequency_trigger |->
               (a.trigger_frequency_score >= 3 \/ Len(rs) > 10)] @@ a

\* Mutant: ten runs already count as high frequency.
AnalyzerTriggersTenRuns(rs) ==
  IF rs = <<>>
  THEN [is_pr_triggered |-> FALSE, is_push_triggered |-> FALSE,
        is_high_frequency_trigger |-> FALSE, trigger_frequency_score |-> 0]
  ELSE LET first_run == rs[1]
           pr == \E i \in 1..Len(rs) : InStr("pull_request", rs[i].event)
           push == \E i \in 1..Len(rs) : InStr("push", rs[i].event)
           a == IF Truthy(first_run.trigger_analysis)
                THEN first_run.trigger_analysis
                ELSE [is_pr_triggered |-> pr,
                      is_push_triggered |-> push,
                      trigger_frequency_score |->
                          (IF pr THEN 3 ELSE 0) + (IF push THEN 2 ELSE 0)]
       IN [is_high_frequency_trigger |->
               (a.trigger_frequency_score >= 3 \/ Len(rs) >= 10)] @@ a

WorkflowAnalyzer_analyze_workflow_triggers(rs) ==
  IF rs = <<>>
  THEN [is_pr_triggered |-> FALSE, is_push_triggered |-> FALSE,
        is_high_frequency_trigger |-> FALSE, trigger_frequency_score |-> 0]
  ELSE LET first_run == rs[1]
           pr == \E i \in 1..Len(rs) : InStr("pull_request", rs[i].event)
           push == \E i \in 1..Len(rs) : InStr("push", rs[i].event)
           a == IF Truthy(first_run.trigger_analysis)
                THEN first_run.trigger_analysis
                ELSE [is_pr_triggered |-> pr,
                      is_push_triggered |-> push,
                      trigger_frequency_score |->
                          (IF pr THEN 3 ELSE 0) + (IF push THEN 2 ELSE 0)]
       IN [is_high_frequency_trigger |->
               (a.trigger_frequency_score >= 3 \/ Len(rs) > 10)] @@ a

\* Mutant: the "high" row for slow PR/push workflows tested before the
\* "critical" row.
PriorityHighRowFirst(avg_duration, frequency_score, trigger_analysis, T) ==
  IF (trigger_analysis.is_pr_triggered \/ trigger_analysis.is_push_triggered)
     /\ RGreater(avg_duration, FromInt(T))
  THEN "high"
  ELSE IF trigger_analysis.is_pr_triggered /\ RGreater(avg_duration, FromInt(T * 2))
  THEN "critical"
  ELSE IF RGreater(frequency_score, FromInt(10)) THEN "high"
  ELSE IF RGreater(avg_duration, FromInt(T)) THEN "medium"
  ELSE IF RGreater(frequency_score, FromInt(5)) THEN "medium"
  ELSE "low"

\* Mutant: the duration row for "medium" tested before the frequency row
\* for "high".
PriorityMediumBeforeFrequent(avg_duration, frequency_score, trigger_analysis, T) ==
  IF trigger_analysis.is_pr_triggered /\ RGreater(avg_duration, FromInt(T * 2))
  THEN "critical"
  ELSE IF (trigger_analysis.is_pr_triggered \/ trigger_analysis.is_push_triggered)
          /\ RGreater(avg_duration, FromInt(T))
  THEN "high"
  ELSE IF RGreater(avg_duration, FromInt(T)) THEN "medium"
  ELSE IF RGreater(frequency_score, FromInt(10)) THEN "high"
  ELSE IF RGreater(frequency_score, FromInt(5)) THEN "medium"
  ELSE "low"

\* Mutant: an average at the threshold, or at its double, counts as over it.
PriorityAtThreshold(avg_duration, frequency_score, trigger_analysis, T) ==
  IF trigger_analysis.is_pr_triggered /\ RGeq(avg_duration, FromInt(T * 2))
  THEN "critical"
  ELSE IF (trigger_analysis.is_pr_triggered \/ trigger_analysis.is_push_triggered)
          /\ RGeq(avg_duration, FromInt(T))
  THEN "high"
  ELSE IF RGreater(frequency_score, FromInt(10)) THEN "high"
  ELSE IF RGeq(avg_duration, FromInt(T)) THEN "medium"
  ELSE IF RGreater(frequency_score, FromInt(5)) THEN "medium"
  ELSE "low"

_determine_optimization_priority(avg_duration, frequency_score, trigger_analysis, T) ==
  IF trigger_analysis.is_pr_triggered /\ RGreater(avg_duration, FromInt(T * 2))
  THEN "critical"
  ELSE IF (trigger_analysis.is_pr_triggered \/ trigger_analysis.is_push_triggered)
          /\ RGreater(avg_duration, FromInt(T))
  THEN "high"
  ELSE IF RGreater(frequency_score, FromInt(10)) THEN "high"
  ELSE IF RGreater(avg_duration, FromInt(T)) THEN "medium"
  ELSE IF RGreater(frequency_score, FromInt(5)) THEN "medium"
  ELSE "low"

\* Mutant: the day span is ignored.
RunsPerDayNoSpan(workflow_runs) == Rat(Len(workflow_runs), 1)

\* frequency_score before the trigger boost.
RunsPerDay(workflow_runs) ==
  Rat(Len(workflow_runs), Max2(_calculate_days_span(workflow_runs), 1))

\* enhanced_frequency_score
EnhancedFrequency(frequency_score, trigger_analysis) ==
  IF trigger_analysis.is_pr_triggered \/ trigger_analysis.is_push_triggered
  THEN RMul(frequency_score, Rat(3, 2))
  ELSE frequency_score

\* Mutant: the excess over the threshold without the floor at zero.
DurationScoreNoFloor(avg_duration, T) == RSub(avg_duration, FromInt(T))

DurationScore(avg_duration, T) == RMax(FromInt(0), RSub(avg_duration, FromInt(T)))

\* Mutant: the push branch tested before the pull-request branch.
TriggerMultiplierPushFirst(avg_duration, trigger_analysis, T) ==
  IF trigger_analysis.is_push_triggered /\ RGreater(avg_duration, FromInt(T))
  THEN Rat(12, 10)
  ELSE IF trigger_analysis.is_pr_triggered /\ RGreater(avg_duration, FromInt(T))
  THEN Rat(13, 10)
  ELSE FromInt(1)

TriggerMultiplier(avg_duration, trigger_analysis, T) ==
  IF trigger_analysis.is_pr_triggered /\ RGreater(avg_duration, FromInt(T))
  THEN Rat(13, 10)
  ELSE IF trigger_analysis.is_push_triggered /\ RGreater(avg_duration, FromInt(T))
  THEN Rat(12, 10)
  ELSE FromInt(1)

\* Mutant: the frequency term subtracted instead of added.
CombinedScoreMinus(duration_score, enhanced_frequency_score, trigger_multiplier) ==
  RMul(RSub(RMul(duration_score, Rat(6, 10)),
            RMul(enhanced_frequency_score, Rat(4, 10))),
       trigger_multiplier)

CombinedScore(duration_score, enhanced_frequency_score, trigger_multiplier) ==
  RMul(RAdd(RMul(duration_score, Rat(6, 10)),
            RMul(enhanced_frequency_score, Rat(4, 10))),
       trigger_multiplier)

\* recent_runs: the runs by created_at descending, the first ten.
\* Mutant: the first ten runs in the order they arrived.
RecentRunsUnsorted(workflow_runs) ==
  SubSeq(workflow_runs, 1, IF Len(workflow_runs) < 10 THEN Len(workflow_runs) ELSE 10)

RecentRuns(workflow_runs) ==
  LET byRecency ==
          SortedDesc(workflow_runs,
                     [i \in 1..Len(workflow_runs) |-> FromInt(workflow_runs[i].created_at)])
  IN SubSeq(byRecency, 1, IF Len(byRecency) < 10 THEN Len(byRecency) ELSE 10)

\* The WorkflowStats of one group.
WorkflowStat(k, workflow_runs, T) ==
  LET durations_minutes ==
          [i \in 1..Len(workflow_runs) |-> Rat(workflow_runs[i].duration_seconds, 60)]
      avg_duration == RDivInt(RSum(durations_minutes), Len(durations_minutes))
      trigger_analysis == WorkflowAnalyzer_analyze_workflow_triggers(workflow_runs)
      enhanced_frequency_score ==
          EnhancedFrequency(RunsPerDay(workflow_runs), trigger_analysis)
      duration_score == DurationScore(avg_duration, T)
      trigger_multiplier == TriggerMultiplier(avg_duration, trigger_analysis, T)
  IN [workflow_name |-> k[2],
      repository |-> k[1],
      total_runs |-> Len(workflow_runs),
      avg_duration_minutes |-> avg_duration,
      max_duration_minutes |-> RMaxSeq(durations_minutes),
      min_duration_minutes |-> RMinSeq(durations_minutes),
      success_rate |-> 100,
      frequency_score |-> enhanced_frequency_score,
      duration_score |-> duration_score,
      combined_score |->
          CombinedScore(duration_score, enhanced_frequency_score, trigger_multiplier),
      trigger_events |-> {workflow_runs[i].event : i \in 1..Len(workflow_runs)},
      recent_runs |-> RecentRuns(workflow_runs),
      is_pr_triggered |-> trigger_analysis.is_pr_triggered,
      is_push_triggered |-> trigger_analysis.is_push_triggered,
      is_high_frequency_trigger |-> trigger_analysis.is_high_frequency_trigger,
      trigger_frequency_score |-> trigger_analysis.trigger_frequency_score,
      optimization_priority |->
          _determine_optimization_priority(avg_duration, enhanced_frequency_score,
                                           trigger_analysis, T)]

\* The stats list before the final sort, in group order.
GroupStats(rs, T) ==
  LET keys == GroupKeys(rs)
  IN [i \in 1..Len(keys) |-> WorkflowStat(keys[i], GroupOf(rs, keys[i]), T)]

\* Mutant: the final sort left out.
AnalyzeUnsorted(rs, T) == GroupStats(rs, T)

analyze_workflows(rs, T) ==
  LET unsorted == GroupStats(rs, T)
  IN SortedDesc(unsorted, [i \in 1..Len(unsorted) |-> unsorted[i].combined_score])

(* ---------------- what a call leaves in the run collection -------------- *)
\* Mutant: the derived flag written into the run's own profile, no copy made.
ProfileWrittenInPlace(workflow_runs) ==
  IF Truthy(workflow_runs[1].trigger_analysis)
  THEN WorkflowAnalyzer_analyze_workflow_triggers(workflow_runs)
  ELSE workflow_runs[1].trigger_analysis

\* The profile attached to the first run of a group once
\* _analyze_workflow_triggers has returned: the derived flag went to a copy.
ProfileAfterTriggers(workflow_runs) == workflow_runs[1].trigger_analysis

\* Mutant: the run list sorted by recency in place.
RunsSortedInPlace(rs) ==
  SortedDesc(rs, [i \in 1..Len(rs) |-> FromInt(rs[i].created_at)])

\* The caller's run list once analyze_workflows has returned.  The groups are
\* new lists of the same run objects and sorted() builds a new list, so only
\* the profile of each group's first run could have been written.
RunsAfterAnalyze(rs) ==
  [i \in 1..Len(rs) |->
     IF \A j \in 1..(i - 1) : Key(rs[j]) # Key(rs[i])
     THEN [rs[i] EXCEPT !.trigger_analysis =
                          ProfileAfterTriggers(GroupOf(rs, Key(rs[i])))]
     ELSE rs[i]]

(* ------------------- the analyzer's other operations ------------------- *)
\* The predicate of filter_problematic_workflows and of the summary.
Problematic(stat, T) ==
  \/ RGreater(stat.avg_duration_minutes, FromInt(T))
  \/ RGreater(stat.frequency_score, FromInt(5))

\* Mutant: a statistic exactly at the threshold counts as problematic.
FilterAtThreshold(sts, T) ==
  SelectSeq(sts, LAMBDA stat : \/ RGeq(stat.avg_duration_minutes, FromInt(T))
                               \/ RGreater(stat.frequency_score, FromInt(5)))

filter_problematic_workflows(sts, T) ==
  SelectSeq(sts, LAMBDA stat : Problematic(stat, T))

\* The rollup of one repository.
RepositoryRollup(sts, repo, T) ==
  LET workflows == SelectSeq(sts, LAMBDA stat : stat.repository = repo)
      totals == [i \in 1..Len(workflows) |-> FromInt(workflows[i].total_runs)]
      avgs == [i \in 1..Len(workflows) |-> workflows[i].avg_duration_minutes]
  IN [total_workflows |-> Len(workflows),
      problematic_workflows |->
          Len(SelectSeq(workflows, LAMBDA stat : Problematic(stat, T))),
      avg_duration |->
          IF workflows # <<>> THEN RDivInt(RSum(avgs), Len(workflows)) ELSE FromInt(0),
      total_runs |-> RSum(totals).num,
      workflows |-> workflows]

\* Mutant: only the duration test counts a workflow as problematic.
SummaryDurationOnly(sts, T) ==
  LET slow(ws) == SelectSeq(ws, LAMBDA stat :
                             RGreater(stat.avg_duration_minutes, FromInt(T)))
  IN [repo \in {sts[i].repository : i \in 1..Len(sts)} |->
        [RepositoryRollup(sts, repo, T) EXCEPT
           !.problematic_workflows = Len(slow(RepositoryRollup(sts, repo, T).workflows))]]

\* A dict keyed by the repositories of the statistics.
get_repository_summary(sts, T) ==
  [repo \in {sts[i].repository : i \in 1..Len(sts)} |-> RepositoryRollup(sts, repo, T)]

\* sorted() of a set of integers, ascending.
RECURSIVE Ascending(_)
Ascending(S) ==
  IF S = {} THEN <<>>
  ELSE LET m == CHOOSE x \in S : \A y \in S : x <= y
       IN <<m>> \o Ascending(S \ {m})

\* The daily entry of one date.  The ISO text of the date is modelled by the
\* date's day number, which orders the same way.
DailyEntry(rs, day) ==
  LET daily_runs == SelectSeq(rs, LAMBDA r : DateOf(r.created_at) = day)
      daily_durations ==
          [i \in 1..Len(daily_runs) |-> Rat(daily_runs[i].duration_seconds, 60)]
  IN [date |-> day,
      runs_count |-> Len(daily_runs),
      avg_duration_minutes |-> RDivInt(RSum(daily_durations), Len(daily_durations)),
      max_duration_minutes |-> RMaxSeq(daily_durations),
      workflows |->
          Cardinality({daily_runs[i].workflow_name : i \in 1..Len(daily_runs)})]

\* Mutant: the days taken in the order the dict holds them, not sorted.
TrendUnsorted(rs, days) ==
  LET keys == Dedup([i \in 1..Len(rs) |-> DateOf(rs[i].created_at)])
  IN [daily_trends |-> [i \in 1..Len(keys) |-> DailyEntry(rs, keys[i])],
      total_analysis_days |-> days,
      total_runs |-> Len(rs),
      total_workflows |-> Cardinality({rs[i].workflow_name : i \in 1..Len(rs)})]

\* Mutant: the mean over all runs taken before the grouping, which divides
\* by the number of runs.
TrendOverallMeanFirst(rs, days) ==
  IF rs = <<>> THEN [raised |-> "ZeroDivisionError"]
  ELSE LET keys == Ascending({DateOf(rs[i].created_at) : i \in 1..Len(rs)})
       IN [daily_trends |-> [i \in 1..Len(keys) |-> DailyEntry(rs, keys[i])],
           total_analysis_days |-> days,
           total_runs |-> Len(rs),
           total_workflows |-> Cardinality({rs[i].workflow_name : i \in 1..Len(rs)})]

get_trend_analysis(rs, days) ==
  LET keys == Ascending({DateOf(rs[i].created_at) : i \in 1..Len(rs)})
  IN [daily_trends |-> [i \in 1..Len(keys) |-> DailyEntry(rs, keys[i])],
      total_analysis_days |-> days,
      total_runs |-> Len(rs),
      total_workflows |-> Cardinality({rs[i].workflow_name : i \in 1..Len(rs)})]

\* The runs get_workflow_patterns scans: every statistic's recent_runs.
RECURSIVE ScannedRuns(_)
ScannedRuns(sts) ==
  IF sts = <<>> THEN <<>> ELSE Head(sts).recent_runs \o ScannedRuns(Tail(sts))

\* hourly_avg as (hour, mean) items in the order the dict holds the hours.
HourlyItems(scanned) ==
  LET hours == Dedup([i \in 1..Len(scanned) |-> HourOf(scanned[i].created_at)])
      durations(h) ==
          LET at == SelectSeq(scanned, LAMBDA r : HourOf(r.created_at) = h)
          IN [i \in 1..Len(at) |-> Rat(at[i].duration_seconds, 60)]
  IN [i \in 1..Len(hours) |->
        <<hours[i], RDivInt(RSum(durations(hours[i])), Len(durations(hours[i])))>>]

\* Mutant: peak_hours not cut to five entries.
PatternsAllHours(sts) ==
  LET scanned == ScannedRuns(sts)
      items == HourlyItems(scanned)
  IN [trigger_events |->
          [e \in {scanned[i].event : i \in 1..Len(scanned)} |->
              Cardinality({i \in 1..Len(scanned) : scanned[i].event = e})],
      hourly_patterns |->
          [h \in {items[i][1] : i \in 1..Len(items)} |->
              items[CHOOSE i \in 1..Len(items) : items[i][1] = h][2]],
      peak_hours |-> SortedDesc(items, [i \in 1..Len(items) |-> items[i][2]])]

get_workflow_patterns(sts) ==
  LET scanned == ScannedRuns(sts)
      items == HourlyItems(scanned)
      byMean == SortedDesc(items, [i \in 1..Len(items) |-> items[i][2]])
  IN [trigger_events |->
          [e \in {scanned[i].event : i \in 1..Len(scanned)} |->
              Cardinality({i \in 1..Len(scanned) : scanned[i].event = e})],
      hourly_patterns |->
          [h \in {items[i][1] : i \in 1..Len(items)} |->
              items[CHOOSE i \in 1..Len(items) : items[i][1] = h][2]],
      peak_hours |-> SubSeq(byMean, 1, IF Len(byMean) < 5 THEN Len(byMean) ELSE 5)]

(* ------------------------------ actions -------------------------------- *)
Init ==
  /\ threshold \in Thresholds
  /\ runs = <<>>
  /\ stats = <<>>
  /\ pc = "input"
  /\ content = None
  /\ analysis = None
  /\ cpc = "idle"
  /\ op = "none"
  /\ result = None

\* The caller adds a run record to the collection it will analyze: any run
\* while the collection is short, repetitions of one run up to MaxBurst.
AddRun(r) ==
  /\ pc = "input"
  /\ \/ Len(runs) < MaxRuns
     \/ Len(runs) < MaxBurst /\ \A i \in 1..Len(runs) : runs[i] = r
  /\ runs' = Append(runs, r)
  /\ UNCHANGED <<threshold, stats, pc, content, analysis, cpc, op, result>>

\* stats = analyzer.analyze_workflows(runs)
Analyze ==
  /\ pc = "input"
  /\ stats' = analyze_workflows(runs, threshold)
  /\ runs' = RunsAfterAnalyze(runs)
  /\ pc' = "analyzed"
  /\ UNCHANGED <<threshold, content, analysis, cpc, op, result>>

Next ==
  \/ \E r \in RunPool : AddRun(r)
  \/ Analyze

Spec == Init /\ [][Next]_vars

\* get_workflow_file_content returned c for the workflow at hand.
GetWorkflowFileContent(c) ==
  /\ cpc = "idle"
  /\ content' = c
  /\ cpc' = "fetched"
  /\ UNCHANGED <<threshold, runs, stats, pc, analysis, op, result>>

\* trigger_analysis = self._analyze_workflow_triggers(workflow_content)
ClassifyTriggers ==
  /\ cpc = "fetched"
  /\ IF Propagates(content)
     THEN cpc' = "raised" /\ UNCHANGED analysis
     ELSE /\ analysis' = GitHubClient_analyze_workflow_triggers(content)
          /\ cpc' = "classified"
  /\ UNCHANGED <<threshold, runs, stats, pc, content, op, result>>

NextClassifier ==
  \/ \E c \in Contents : GetWorkflowFileContent(c)
  \/ ClassifyTriggers

SpecClassifier == Init /\ [][NextClassifier]_vars

(* ------------------ GitHubClient.get_all_repository_runs --------------- *)
\* The contents get_workflow_file_content returns in the pipeline: no file,
\* a quoted-key list, a plain-key mapping, a text that does not load.
PipelineContents ==
  {None,
   Text("map", "quoted", "list", <<"pull_request">>),
   Text("map", "plain", "map", <<"push">>),
   Text("invalid", "-", "-", <<"push">>)}

\* The runs get_workflow_runs builds: no trigger_analysis yet.
FetchedRuns == {r \in RunPool : r.trigger_analysis = None}

\* One pass of the enrichment loop over a fetched run of the workflow at
\* hand, which then joins all_runs.
EnrichRun(r) ==
  /\ cpc = "fetched"
  /\ pc = "input"
  /\ Len(runs) < MaxRuns
  /\ \A i \in 1..Len(runs) : Key(runs[i]) = Key(r)
  /\ runs' = Append(runs,
                    [r EXCEPT !.trigger_analysis =
                                  GitHubClient_analyze_workflow_triggers(content)])
  /\ UNCHANGED <<threshold, stats, pc, content, analysis, cpc, op, result>>

NextPipeline ==
  \/ \E c \in PipelineContents : GetWorkflowFileContent(c)
  \/ \E r \in FetchedRuns : EnrichRun(r)
  \/ Analyze

SpecPipeline == Init /\ [][NextPipeline]_vars

(* ------------------------- the report operations ----------------------- *)
\* The workflows of a report and the event each one's runs carry.
ReportWorkflows == {<<"org/a", "build">>, <<"org/a", "test">>, <<"org/b", "build">>}

ReportEvent(w) ==
  CASE w = <<"org/a", "build">> -> <<"push">>
    [] w = <<"org/a", "test">> -> <<"schedule">>
    [] OTHER -> <<"pull_request">>

ReportPool ==
  {[repository |-> w[1], workflow_name |-> w[2], duration_seconds |-> d,
    created_at |-> c, event |-> ReportEvent(w), trigger_analysis |-> None] :
      w \in ReportWorkflows, d \in Durations, c \in CreatedAts}

\* The workflow of the last run ran again an hour later.
Rerun ==
  /\ pc = "input"
  /\ runs # <<>>
  /\ Len(runs) < MaxFeed
  /\ runs' = Append(runs, [runs[Len(runs)] EXCEPT !.created_at = @ + 1])
  /\ UNCHANGED <<threshold, stats, pc, content, analysis, cpc, op, result>>

\* analyzer.filter_problematic_workflows(stats)
FilterProblematic ==
  /\ pc = "analyzed" /\ op = "none"
  /\ op' = "filter"
  /\ result' = filter_problematic_workflows(stats, threshold)
  /\ UNCHANGED <<threshold, runs, stats, pc, content, analysis, cpc>>

\* analyzer.filter_problematic_workflows applied to its own output
FilterAgain ==
  /\ pc = "analyzed" /\ op = "filter"
  /\ op' = "filter_again"
  /\ result' = filter_problematic_workflows(result, threshold)
  /\ UNCHANGED <<threshold, runs, stats, pc, content, analysis, cpc>>

\* analyzer.get_repository_summary(stats)
RepositorySummary ==
  /\ pc = "analyzed" /\ op = "none"
  /\ op' = "summary"
  /\ result' = get_repository_summary(stats, threshold)
  /\ UNCHANGED <<threshold, runs, stats, pc, content, analysis, cpc>>

\* analyzer.get_trend_analysis(all_runs)
TrendAnalysis ==
  /\ pc = "analyzed" /\ op = "none"
  /\ op' = "trend"
  /\ result' = get_trend_analysis(runs, DefaultDays)
  /\ UNCHANGED <<threshold, runs, stats, pc, content, analysis, cpc>>

\* analyzer.get_workflow_patterns(stats)
WorkflowPatterns ==
  /\ pc = "analyzed" /\ op = "none"
  /\ op' = "patterns"
  /\ result' = get_workflow_patterns(stats)
  /\ UNCHANGED <<threshold, runs, stats, pc, content, analysis, cpc>>

NextReport ==
  \/ \E r \in ReportPool : AddRun(r)
  \/ Rerun
  \/ Analyze
  \/ FilterProblematic
  \/ FilterAgain
  \/ RepositorySummary
  \/ TrendAnalysis
  \/ WorkflowPatterns

SpecReport == Init /\ [][NextReport]_vars

(* ---------------------- repeated calls in one session ------------------ *)
\* Runs of one duration with and without an attached profile.
SessionPool ==
  {r \in RunPool : r.duration_seconds = 480 /\ r.event # <<"pull_request">>}

\* analyzer.analyze_workflows(runs) called a second time on the same list
AnalyzeAgain ==
  /\ pc = "analyzed" /\ op # "analyze_again"
  /\ op' = "analyze_again"
  /\ result' = analyze_workflows(runs, threshold)
  /\ runs' = RunsAfterAnalyze(runs)
  /\ UNCHANGED <<threshold, stats, pc, content, analysis, cpc>>

\* The workflow of the first run ran again an hour later, once the other
\* runs had arrived.
FirstAgain ==
  /\ pc = "input"
  /\ Len(runs) = MaxRuns
  /\ runs' = Append(runs, [runs[1] EXCEPT !.created_at = @ + 1])
  /\ UNCHANGED <<threshold, stats, pc, content, analysis, cpc, op, result>>

NextSession ==
  \/ \E r \in SessionPool : AddRun(r)
  \/ FirstAgain
  \/ Analyze
  \/ AnalyzeAgain
  \/ FilterProblematic
  \/ FilterAgain
  \/ RepositorySummary
  \/ TrendAnalysis
  \/ WorkflowPatterns

SpecSession == Init /\ [][NextSession]_vars

(* ----------------------- the client's pagination ----------------------- *)
\* What the server may answer to one page request: an error, or a page of
\* len entries of which kept pass the loop's filter (runs that concluded in
\* success, repositories not archived that match the filter).
PageLens == {0, PerPage - 1, PerPage}

Answers ==
  {[error |-> TRUE, len |-> 0, kept |-> 0]}
    \cup {[error |-> FALSE, len |-> l, kept |-> 0] : l \in PageLens}
    \cup {[error |-> FALSE, len |-> l, kept |-> l] : l \in PageLens}

\* The locals of a pagination loop on entry.
Paging == [page |-> 1, requests |-> 0, collected |-> 0]

\* Mutant: the safety limit tested before the page number is advanced.
WorkflowRunsLimitBeforeIncrement(st, a) ==
  LET asked == [st EXCEPT !.requests = @ + 1]
      got == [asked EXCEPT !.collected = @ + a.kept]
  IN IF a.error THEN <<asked, "raised">>
     ELSE IF a.len = 0 THEN <<asked, "returned">>
     ELSE IF a.len < PerPage THEN <<got, "returned">>
     ELSE IF got.page > RunsPageLimit THEN <<got, "returned">>
     ELSE <<[got EXCEPT !.page = @ + 1], "paging">>

\* One pass of the loop of get_workflow_runs: the locals after it and where
\* the call stands.  A failed request raises out of the call.
WorkflowRunsIteration(st, a) ==
  LET asked == [st EXCEPT !.requests = @ + 1]
      got == [asked EXCEPT !.collected = @ + a.kept]
      next == [got EXCEPT !.page = @ + 1]
  IN IF a.error THEN <<asked, "raised">>
     ELSE IF a.len = 0 THEN <<asked, "returned">>
     ELSE IF a.len < PerPage THEN <<got, "returned">>
     ELSE IF next.page > RunsPageLimit THEN <<next, "returned">>
     ELSE <<next, "paging">>

\* One pass of the loop of get_organization_repositories.  A failed request
\* is caught and ends the loop.
RepositoriesIteration(st, a) ==
  LET asked == [st EXCEPT !.requests = @ + 1]
      got == [asked EXCEPT !.collected = @ + a.kept]
      next == [got EXCEPT !.page = @ + 1]
  IN IF a.error THEN <<asked, "returned">>
     ELSE IF a.len = 0 THEN <<asked, "returned">>
     ELSE IF a.len < PerPage THEN <<got, "returned">>
     ELSE IF next.page > ReposPageLimit THEN <<next, "returned">>
     ELSE <<next, "paging">>

\* client.get_workflow_runs(repo, workflow_id) is entered
CallGetWorkflowRuns ==
  /\ cpc = "idle" /\ op = "none"
  /\ op' = "get_workflow_runs"
  /\ result' = Paging
  /\ cpc' = "paging"
  /\ UNCHANGED <<threshold, runs, stats, pc, content, analysis>>

\* client.get_organization_repositories(org) is entered
CallGetOrganizationRepositories ==
  /\ cpc = "idle" /\ op = "none"
  /\ op' = "get_organization_repositories"
  /\ result' = Paging
  /\ cpc' = "paging"
  /\ UNCHANGED <<threshold, runs, stats, pc, content, analysis>>

WorkflowRunsPage(a) ==
  /\ cpc = "paging" /\ op = "get_workflow_runs"
  /\ result' = WorkflowRunsIteration(result, a)[1]
  /\ cpc' = WorkflowRunsIteration(result, a)[2]
  /\ UNCHANGED <<threshold, runs, stats, pc, content, analysis, op>>

RepositoriesPage(a) ==
  /\ cpc = "paging" /\ op = "get_organization_repositories"
  /\ result' = RepositoriesIteration(result, a)[1]
  /\ cpc' = RepositoriesIteration(result, a)[2]
  /\ UNCHANGED <<threshold, runs, stats, pc, content, analysis, op>>

NextPaging ==
  \/ CallGetWorkflowRuns
  \/ CallGetOrganizationRepositories
  \/ \E a \in Answers : WorkflowRunsPage(a)
  \/ \E a \in Answers : RepositoriesPage(a)

\* A call in progress keeps running: the server answers every request.
SpecPaging ==
  /\ Init
  /\ [][NextPaging]_vars
  /\ WF_vars(\E a \in Answers : WorkflowRunsPage(a))
  /\ WF_vars(\E a \in Answers : RepositoriesPage(a))

(* ------------------------------ properties ----------------------------- *)
Analyzed == pc = "analyzed"
StatIdx == 1..Len(stats)

\* avg_duration_minutes of a statistic against the threshold and its double.
OverThreshold(s) == RGreater(s.avg_duration_minutes, FromInt(threshold))
OverTwiceThreshold(s) == RGreater(s.avg_duration_minutes, FromInt(2 * threshold))
FrequentTrigger(s) == s.is_pr_triggered \/ s.is_push_triggered

\* The input runs of a statistic's group, as positions in runs.
RunsOfStat(s) ==
  {i \in 1..Len(runs) : runs[i].repository = s.repository
                        /\ runs[i].workflow_name = s.workflow_name}

\* C1 (as claimed): every analysed group with the pull-request flag or the
\* push flag set and an average duration above twice the threshold has
\* optimization_priority "critical".
C1_FrequentTriggerIsCritical ==
  Analyzed =>
    \A i \in StatIdx :
      FrequentTrigger(stats[i]) /\ OverTwiceThreshold(stats[i])
        => stats[i].optimization_priority = "critical"

\* C1 (amended): a group with the pull-request flag set and an average
\* duration above twice the threshold is "critical"; a group with only the
\* push flag set and such an average is "high".
C1_PullRequestIsCritical ==
  Analyzed =>
    \A i \in StatIdx :
      OverTwiceThreshold(stats[i]) =>
        /\ stats[i].is_pr_triggered => stats[i].optimization_priority = "critical"
        /\ stats[i].is_push_triggered /\ ~stats[i].is_pr_triggered
             => stats[i].optimization_priority = "high"

C1_Witness ==
  /\ Analyzed
  /\ \E i \in StatIdx :
       /\ stats[i].is_pr_triggered /\ OverTwiceThreshold(stats[i])
       /\ stats[i].optimization_priority = "critical"
  /\ \E i \in StatIdx :
       /\ stats[i].is_push_triggered /\ ~stats[i].is_pr_triggered
       /\ OverTwiceThreshold(stats[i])

\* The label of the decision table below its critical row, first match wins.
C2_TableLabel(s) ==
  IF FrequentTrigger(s) /\ OverThreshold(s) THEN "high"
  ELSE IF RGreater(s.frequency_score, FromInt(10)) THEN "high"
  ELSE IF OverThreshold(s) THEN "medium"
  ELSE IF RGreater(s.frequency_score, FromInt(5)) THEN "medium"
  ELSE "low"

\* C2: every analysed group that does not match the critical row carries the
\* label of the first matching row of the rest of the table, read with the
\* boosted frequency_score stored in the statistic.
C2_FirstMatchingRow ==
  Analyzed =>
    \A i \in StatIdx :
      ~(stats[i].is_pr_triggered /\ OverTwiceThreshold(stats[i]))
        => stats[i].optimization_priority = C2_TableLabel(stats[i])

\* A slow group without PR/push flag that runs more than 10 times a day:
\* "high" by the frequency row, which precedes the duration row.
C2_Witness ==
  /\ Analyzed
  /\ \E i \in StatIdx :
       /\ ~FrequentTrigger(stats[i]) /\ OverThreshold(stats[i])
       /\ RGreater(stats[i].frequency_score, FromInt(10))
       /\ stats[i].optimization_priority = "high"

\* C3: combined_score = (duration_score * 0.6 + frequency_score * 0.4) *
\* trigger_multiplier, the multiplier being 1.3 for a PR-flagged group over
\* the threshold, else 1.2 for a push-flagged one over it, else 1.0.
C3_Multiplier(s) ==
  IF ~OverThreshold(s) THEN FromInt(1)
  ELSE IF s.is_pr_triggered THEN Rat(13, 10)
  ELSE IF s.is_push_triggered THEN Rat(12, 10)
  ELSE FromInt(1)

C3_CombinedScore ==
  Analyzed =>
    \A i \in StatIdx :
      stats[i].combined_score =
        RMul(RAdd(RMul(stats[i].duration_score, Rat(6, 10)),
                  RMul(stats[i].frequency_score, Rat(4, 10))),
             C3_Multiplier(stats[i]))

\* A group over the threshold with both flags set: PR takes precedence.
C3_Witness ==
  /\ Analyzed
  /\ \E i \in StatIdx :
       /\ stats[i].is_pr_triggered /\ stats[i].is_push_triggered
       /\ OverThreshold(stats[i])
       /\ RGreater(stats[i].duration_score, FromInt(0))

\* C4: the returned statistics are ordered by combined_score descending.
C4_SortedDescending ==
  Analyzed =>
    \A i \in StatIdx :
      i < Len(stats) => RGeq(stats[i].combined_score, stats[i + 1].combined_score)

\* Two groups whose order in the result is the reverse of their order of
\* first appearance in the input.
C4_Witness ==
  /\ Analyzed
  /\ Len(stats) = 2
  /\ RGreater(stats[1].combined_score, stats[2].combined_score)
  /\ runs[1].repository = stats[2].repository

\* C5: frequency_score = (runs of the group) / max(day span, 1), times 1.5
\* exactly when the PR flag or the push flag is set.
C5_Span(s) ==
  LET days == {DateOf(runs[i].created_at) : i \in RunsOfStat(s)}
      hi == CHOOSE d \in days : \A e \in days : e <= d
      lo == CHOOSE d \in days : \A e \in days : d <= e
  IN IF hi - lo < 1 THEN 1 ELSE hi - lo

C5_FrequencyScore ==
  Analyzed =>
    \A i \in StatIdx :
      LET s == stats[i]
          n == Cardinality(RunsOfStat(s))
      IN /\ C5_Span(s) >= 1
         /\ s.frequency_score.den * n * (IF FrequentTrigger(s) THEN 3 ELSE 2)
              = s.frequency_score.num * C5_Span(s) * 2

\* A boosted group of two runs created two days apart: 2 / 2 * 1.5.
C5_Witness ==
  /\ Analyzed
  /\ \E i \in StatIdx :
       /\ C5_Span(stats[i]) = 2 /\ FrequentTrigger(stats[i])
       /\ stats[i].total_runs = 2
       /\ stats[i].frequency_score = Rat(3, 2)

\* C6: duration_score = max(0, avg_duration_minutes - threshold): never
\* negative, and 0 whenever the average does not exceed the threshold.
C6_DurationScore ==
  Analyzed =>
    \A i \in StatIdx :
      LET s == stats[i]
      IN /\ s.duration_score.num >= 0
         /\ ~OverThreshold(s) => s.duration_score = FromInt(0)
         /\ OverThreshold(s) =>
              s.duration_score.num * s.avg_duration_minutes.den
                = (s.avg_duration_minutes.num - threshold * s.avg_duration_minutes.den)
                    * s.duration_score.den

\* A group strictly under the threshold, next to one strictly over it.
C6_Witness ==
  /\ Analyzed
  /\ \E i \in StatIdx :
       /\ RLess(stats[i].avg_duration_minutes, FromInt(threshold))
       /\ stats[i].duration_score = FromInt(0)
  /\ \E i \in StatIdx : OverThreshold(stats[i])

\* C7: when every input run has duration_seconds >= 0, every statistic has
\* combined_score >= 0.
C7_CombinedNonNegative ==
  Analyzed /\ (\A i \in 1..Len(runs) : runs[i].duration_seconds >= 0) =>
    \A i \in StatIdx : stats[i].combined_score.num >= 0

\* A group under the threshold whose score comes from its frequency alone.
C7_Witness ==
  /\ Analyzed
  /\ \A i \in 1..Len(runs) : runs[i].duration_seconds >= 0
  /\ \E i \in StatIdx :
       /\ RLess(stats[i].avg_duration_minutes, FromInt(threshold))
       /\ RGreater(stats[i].combined_score, FromInt(0))

Classified == cpc = "classified"

\* The kind of keyword kw is declared by the names of the declaration.
NameDeclares(kw) ==
  \E i \in 1..Len(content.names) : InWord(kw, LowerWord(content.names[i]))

\* C8 (as claimed): the classifier's trigger_frequency_score counts each
\* trigger kind once: 3 for the PR flag, 2 for the push flag, 1 for the
\* schedule flag, so it never exceeds 6.
C8_EachKindCountedOnce ==
  Classified =>
    /\ analysis.trigger_frequency_score =
         (IF analysis.is_pr_triggered THEN 3 ELSE 0)
         + (IF analysis.is_push_triggered THEN 2 ELSE 0)
         + (IF analysis.is_schedule_triggered THEN 1 ELSE 0)
    /\ analysis.trigger_frequency_score <= 6

\* A keyed declaration with a trigger section in one of the three shapes.
WellFormedDeclaration ==
  /\ content # None
  /\ content.syntax = "map"
  /\ content.key \in {"plain", "quoted"}
  /\ content.shape \in {"str", "list", "map"}

\* C9 (as claimed): for a well-formed keyed declaration, whatever the shape
\* of its trigger section, each flag is set exactly when one of the trigger
\* names contains the kind's keyword, case-insensitively.
C9_FlagsFromTriggerNames ==
  Classified /\ WellFormedDeclaration =>
    /\ analysis.is_pr_triggered = NameDeclares("pull_request")
    /\ analysis.is_push_triggered = NameDeclares("push")
    /\ analysis.is_schedule_triggered = NameDeclares("schedule")
    /\ analysis.is_manual_triggered = NameDeclares("workflow_dispatch")

\* C10 (as claimed): a text that does not load as a keyed document (garbage,
\* a bare scalar, a list) and contains "push" is classified in substring
\* mode: push flag true, score at least 2.
C10_FallbackFindsPush ==
  Classified /\ content # None
    /\ content.syntax \in {"invalid", "null", "scalar", "list"}
    /\ InStr("push", RawText(content))
    => analysis.is_push_triggered /\ analysis.trigger_frequency_score >= 2

\* The keyword occurs in the raw text of the content, case-insensitively.
TextHas(kw) ==
  \E i \in 1..Len(RawText(content)) : InWord(kw, LowerWord(RawText(content)[i]))

\* C11 (as claimed): in substring-fallback mode (the text does not load, or
\* loads to None) each of the four flags is set exactly when its keyword
\* occurs in the raw text, with contributions 3, 2, 1 and 0: what structured
\* mode returns for the text as a single trigger name.
C11_FallbackSearchesFourKeywords ==
  Classified /\ content # None /\ content.syntax \in {"invalid", "null"} =>
    /\ analysis.is_pr_triggered = TextHas("pull_request")
    /\ analysis.is_push_triggered = TextHas("push")
    /\ analysis.is_schedule_triggered = TextHas("schedule")
    /\ analysis.is_manual_triggered = TextHas("workflow_dispatch")
    /\ analysis.trigger_frequency_score =
         (IF TextHas("pull_request") THEN 3 ELSE 0)
         + (IF TextHas("push") THEN 2 ELSE 0)
         + (IF TextHas("schedule") THEN 1 ELSE 0)

\* C12: the classifier never lets an exception out: every call returns a
\* profile, and for an absent declaration the profile has all four flags
\* false and score 0.
C12_ClassifierNeverRaises ==
  /\ cpc # "raised"
  /\ Classified =>
       /\ analysis # None
       /\ analysis.trigger_frequency_score >= 0
  /\ Classified /\ content = None =>
       /\ ~analysis.is_pr_triggered /\ ~analysis.is_push_triggered
       /\ ~analysis.is_schedule_triggered /\ ~analysis.is_manual_triggered
       /\ analysis.trigger_frequency_score = 0

\* A text that loads to None: the `in` test raises TypeError, which is
\* caught, and the profile comes from the keyword search.
C12_Witness ==
  /\ Classified
  /\ content # None /\ content.syntax = "null"
  /\ TextHas("push") /\ analysis.is_push_triggered

\* C13 (as claimed): when the workflow's declaration is missing, the runs
\* enriched by the client and then analysed get the event-string fallback: a
\* group whose runs all have event "pull_request" has the pull-request flag
\* and trigger_frequency_score 3.
C13_MissingDeclarationUsesEvents ==
  Analyzed /\ cpc = "fetched" /\ content = None =>
    \A i \in StatIdx :
      (\A j \in RunsOfStat(stats[i]) : runs[j].event = <<"pull_request">>)
        => stats[i].is_pr_triggered /\ stats[i].trigger_frequency_score = 3

\* No run of the statistic's group carries an attached profile.
NoAttachedProfile(s) == \A j \in RunsOfStat(s) : runs[j].trigger_analysis = None

\* Some run of the statistic's group has an event containing the keyword.
SomeEventHas(s, kw) == \E j \in RunsOfStat(s) : InStr(kw, runs[j].event)

\* C14: for a group with no attached profile, the pull-request flag is true
\* iff some run's event contains "pull_request", the push flag iff some
\* event contains "push", and trigger_frequency_score is 3 for the former
\* plus 2 for the latter.
C14_EventFallback ==
  Analyzed =>
    \A i \in StatIdx :
      NoAttachedProfile(stats[i]) =>
        /\ stats[i].is_pr_triggered = SomeEventHas(stats[i], "pull_request")
        /\ stats[i].is_push_triggered = SomeEventHas(stats[i], "push")
        /\ stats[i].trigger_frequency_score =
             (IF SomeEventHas(stats[i], "pull_request") THEN 3 ELSE 0)
             + (IF SomeEventHas(stats[i], "push") THEN 2 ELSE 0)

\* A group without profile whose first run is a "schedule" run and whose
\* second is a "pull_request" run, next to no other group.
C14_Witness ==
  /\ Analyzed
  /\ Len(runs) = 2 /\ Len(stats) = 1
  /\ NoAttachedProfile(stats[1])
  /\ runs[1].event = <<"schedule">> /\ runs[2].event = <<"pull_request">>
  /\ stats[1].is_pr_triggered /\ stats[1].trigger_frequency_score = 3

\* C15: is_high_frequency_trigger is true exactly when the group's
\* trigger_frequency_score is at least 3 or the group has more than 10 runs,
\* for attached and for derived profiles.
C15_HighFrequency ==
  Analyzed =>
    \A i \in StatIdx :
      stats[i].is_high_frequency_trigger
        = (stats[i].trigger_frequency_score >= 3
           \/ Cardinality(RunsOfStat(stats[i])) > 10)

\* Score 2 with 11 runs: high frequency by the run count alone.
C15_Witness ==
  /\ Analyzed
  /\ \E i \in StatIdx :
       /\ stats[i].trigger_frequency_score = 2
       /\ stats[i].total_runs = 11
       /\ stats[i].is_high_frequency_trigger


(* ------------------------- report properties --------------------------- *)
\* The sum of the rationals f[x] for x in S.
RECURSIVE RSumSet(_, _)
RSumSet(f, S) ==
  IF S = {} THEN FromInt(0)
  ELSE LET x == CHOOSE y \in S : TRUE
       IN RAdd(f[x], RSumSet(f, S \ {x}))

\* How often the run record x occurs in the sequence s.
Occurrences(s, x) == Cardinality({i \in 1..Len(s) : s[i] = x})

\* The filter's predicate, stated on one statistic.
SlowOrFrequent(s) ==
  \/ RGreater(s.avg_duration_minutes, FromInt(threshold))
  \/ RGreater(s.frequency_score, FromInt(5))

\* C16: recent_runs of every statistic contains exactly min(10, total_runs)
\* runs, all from the group, ordered by created_at descending, and every run
\* of the group that is not in recent_runs was created no later than every
\* run in it.
C16_RecentRuns ==
  Analyzed =>
    \A n \in StatIdx :
      LET s == stats[n]
          rr == s.recent_runs
          group == [i \in RunsOfStat(s) |-> runs[i]]
          inGroup(x) == Cardinality({i \in RunsOfStat(s) : group[i] = x})
      IN /\ s.total_runs = Cardinality(RunsOfStat(s))
         /\ Len(rr) = (IF s.total_runs < 10 THEN s.total_runs ELSE 10)
         /\ \A j \in 1..Len(rr) : Occurrences(rr, rr[j]) <= inGroup(rr[j])
         /\ \A j \in 1..(Len(rr) - 1) : rr[j].created_at >= rr[j + 1].created_at
         /\ \A i \in RunsOfStat(s) :
              Occurrences(rr, group[i]) < inGroup(group[i]) =>
                \A j \in 1..Len(rr) : group[i].created_at <= rr[j].created_at

\* A group of more than ten runs that arrived oldest first was analysed: its
\* recent_runs leaves runs out and starts with the last run that arrived.
C16_Witness ==
  /\ Analyzed
  /\ \E n \in StatIdx :
       /\ stats[n].total_runs > 10
       /\ Len(stats[n].recent_runs) = 10
       /\ stats[n].recent_runs[1] = runs[Len(runs)]
       /\ runs[1].created_at < runs[Len(runs)].created_at
       /\ \A j \in 1..10 : stats[n].recent_runs[j] # runs[1]

\* C17: filter_problematic_workflows returns exactly the statistics s of its
\* input with s.avg_duration_minutes > threshold or s.frequency_score > 5, in
\* their input order, and leaves the input list and its elements unchanged;
\* applying it to its own output returns the same list.
C17_Filter ==
  LET keep == {i \in StatIdx : SlowOrFrequent(stats[i])}
      nth(j) == CHOOSE i \in keep : Cardinality({k \in keep : k < i}) = j - 1
  IN (op \in {"filter", "filter_again"}) =>
       /\ stats = analyze_workflows(runs, threshold)
       /\ Len(result) = Cardinality(keep)
       /\ \A j \in 1..Len(result) : result[j] = stats[nth(j)]

\* The filter ran twice over statistics of which it kept some and dropped
\* some, one of them kept for its frequency alone.
C17_Witness ==
  /\ op = "filter_again"
  /\ result # <<>>
  /\ Len(result) < Len(stats)
  /\ \E i \in 1..Len(result) :
       ~RGreater(result[i].avg_duration_minutes, FromInt(threshold))

\* C18: get_repository_summary(analyze_workflows(runs)) has one rollup per
\* repository present, in which total_workflows is the number of statistics
\* of that repository, problematic_workflows is the number of them satisfying
\* the filter predicate, avg_duration is the mean of their
\* avg_duration_minutes and total_runs is the sum of their total_runs;
\* total_workflows summed over all repositories equals the number of distinct
\* (repository, workflow) groups in runs, and problematic_workflows summed
\* equals the length of the filtered statistics.
C18_RepositorySummary ==
  LET repos == {stats[i].repository : i \in StatIdx}
      of(repo) == {i \in StatIdx : stats[i].repository = repo}
      avgs == [i \in StatIdx |-> stats[i].avg_duration_minutes]
      totals == [i \in StatIdx |-> FromInt(stats[i].total_runs)]
  IN (op = "summary") =>
       /\ DOMAIN result = repos
       /\ \A repo \in repos :
            /\ result[repo].total_workflows = Cardinality(of(repo))
            /\ result[repo].problematic_workflows =
                 Cardinality({i \in of(repo) : SlowOrFrequent(stats[i])})
            /\ RMul(result[repo].avg_duration, FromInt(Cardinality(of(repo))))
                 = RSumSet(avgs, of(repo))
            /\ FromInt(result[repo].total_runs) = RSumSet(totals, of(repo))
       /\ RSumSet([repo \in repos |-> FromInt(result[repo].total_workflows)], repos)
            = FromInt(Cardinality({Key(runs[i]) : i \in 1..Len(runs)}))
       /\ RSumSet([repo \in repos |-> FromInt(result[repo].problematic_workflows)], repos)
            = FromInt(Cardinality({i \in StatIdx : SlowOrFrequent(stats[i])}))

\* Two repositories were summarised, one of them holding a workflow that is
\* problematic for its frequency alone.
C18_Witness ==
  /\ op = "summary"
  /\ Cardinality(DOMAIN result) = 2
  /\ \E repo \in DOMAIN result :
       /\ result[repo].problematic_workflows = 1
       /\ \E i \in StatIdx :
            /\ stats[i].repository = repo
            /\ RGreater(stats[i].frequency_score, FromInt(5))
            /\ ~RGreater(stats[i].avg_duration_minutes, FromInt(threshold))

\* C19: get_trend_analysis emits exactly one daily entry per calendar date on
\* which at least one input run was created, in strictly ascending date
\* order, never an entry with runs_count 0; each entry's runs_count is the
\* number of runs created on that date (so the runs_count values sum to
\* len(runs)), and its mean and max durations are taken over exactly those
\* runs.
C19_Trend ==
  LET dates == {DateOf(runs[i].created_at) : i \in 1..Len(runs)}
      on(day) == {i \in 1..Len(runs) : DateOf(runs[i].created_at) = day}
      minutes == [i \in 1..Len(runs) |-> Rat(runs[i].duration_seconds, 60)]
      daily == result.daily_trends
  IN (op = "trend") =>
       /\ Len(daily) = Cardinality(dates)
       /\ \A n \in 1..Len(daily) : daily[n].date \in dates
       /\ \A n \in 1..(Len(daily) - 1) : daily[n].date < daily[n + 1].date
       /\ \A n \in 1..Len(daily) :
            /\ daily[n].runs_count > 0
            /\ daily[n].runs_count = Cardinality(on(daily[n].date))
            /\ RMul(daily[n].avg_duration_minutes, FromInt(daily[n].runs_count))
                 = RSumSet(minutes, on(daily[n].date))
            /\ \E i \in on(daily[n].date) : daily[n].max_duration_minutes = minutes[i]
            /\ \A i \in on(daily[n].date) :
                 ~RGreater(minutes[i], daily[n].max_duration_minutes)
       /\ RSumSet([n \in 1..Len(daily) |-> FromInt(daily[n].runs_count)],
                  1..Len(daily)) = FromInt(Len(runs))

\* The trend was taken over runs of two dates that arrived latest date first,
\* the earlier date holding several runs.
C19_Witness ==
  /\ op = "trend"
  /\ Len(result.daily_trends) = 2
  /\ DateOf(runs[1].created_at) > DateOf(runs[2].created_at)
  /\ result.daily_trends[1].runs_count >= 2
  /\ result.daily_trends[2].runs_count = 1

\* C20: get_workflow_patterns tabulates only the runs in each statistic's
\* recent_runs (at most 10 per workflow): the per-event counts sum to the
\* total number of recent_runs entries across the statistics, hourly_patterns
\* has a mean duration for exactly the hours (0..23) in which some recent run
\* was created, and peak_hours holds at most 5 (hour, mean) pairs ordered by
\* mean descending, each mean >= that of every hour not listed.
C20_Patterns ==
  LET entries == {<<n, j>> \in StatIdx \X (1..10) : j <= Len(stats[n].recent_runs)}
      run == [e \in entries |-> stats[e[1]].recent_runs[e[2]]]
      minutes == [e \in entries |-> Rat(run[e].duration_seconds, 60)]
      hours == {HourOf(run[e].created_at) : e \in entries}
      at(h) == {e \in entries : HourOf(run[e].created_at) = h}
      events == DOMAIN result.trigger_events
      hourly == result.hourly_patterns
      peak == result.peak_hours
      listed == {peak[p][1] : p \in 1..Len(peak)}
  IN (op = "patterns") =>
       /\ \A n \in StatIdx : Len(stats[n].recent_runs) <= 10
       /\ events = {run[e].event : e \in entries}
       /\ \A ev \in events :
            result.trigger_events[ev] = Cardinality({e \in entries : run[e].event = ev})
       /\ RSumSet([ev \in events |-> FromInt(result.trigger_events[ev])], events)
            = FromInt(Cardinality(entries))
       /\ DOMAIN hourly = hours
       /\ hours \subseteq 0..23
       /\ \A h \in hours :
            RMul(hourly[h], FromInt(Cardinality(at(h)))) = RSumSet(minutes, at(h))
       /\ Len(peak) <= 5
       /\ \A p \in 1..Len(peak) : peak[p][1] \in hours /\ peak[p][2] = hourly[peak[p][1]]
       /\ \A p, q \in 1..Len(peak) : p < q =>
            peak[p][1] # peak[q][1] /\ RGeq(peak[p][2], peak[q][2])
       /\ \A h \in hours \ listed :
            /\ Len(peak) = 5
            /\ \A p \in 1..Len(peak) : RGeq(peak[p][2], hourly[h])

\* The patterns were taken over statistics of which one has runs outside its
\* recent_runs, with more than five hours tabulated of unequal means.
C20_Witness ==
  /\ op = "patterns"
  /\ \E n \in StatIdx : stats[n].total_runs > 10
  /\ Cardinality(DOMAIN result.hourly_patterns) > 5
  /\ Len(result.peak_hours) = 5
  /\ RGreater(result.peak_hours[1][2], result.peak_hours[5][2])

C22_EmptyInput ==
  /\ (Analyzed /\ runs = <<>>) => stats = <<>>
  /\ (op \in {"filter", "filter_again"} /\ stats = <<>>) => result = <<>>
  /\ (op = "summary" /\ stats = <<>>) => DOMAIN result = {}
  /\ (op = "trend" /\ runs = <<>>) =>
       /\ DOMAIN result =
            {"daily_trends", "total_analysis_days", "total_runs", "total_workflows"}
       /\ result.daily_trends = <<>>
       /\ result.total_runs = 0
       /\ result.total_workflows = 0
  /\ (op = "patterns" /\ stats = <<>>) =>
       /\ DOMAIN result = {"trigger_events", "hourly_patterns", "peak_hours"}
       /\ DOMAIN result.trigger_events = {}
       /\ DOMAIN result.hourly_patterns = {}
       /\ result.peak_hours = <<>>

\* The trend was taken of an empty run collection after its analysis.
C22_Witness ==
  /\ op = "trend"
  /\ runs = <<>>
  /\ stats = <<>>
  /\ result.total_runs = 0

(* ------------------------ boundary and grouping ------------------------ *)
\* Scenario A: two same-day pull_request runs of org/a build, 12 and 8
\* minutes, without attached profile, under threshold 10.
ScenarioA ==
  /\ threshold = 10
  /\ Len(runs) = 2
  /\ \A i \in 1..2 :
       /\ Key(runs[i]) = <<"org/a", "build">>
       /\ runs[i].event = <<"pull_request">>
       /\ runs[i].trigger_analysis = None
       /\ runs[i].created_at = 9
  /\ runs[1].duration_seconds = 720
  /\ runs[2].duration_seconds = 480

\* C23: an average duration exactly equal to the threshold is not treated as
\* over threshold anywhere: duration_score is 0, the trigger multiplier is
\* 1.0 and the priority is decided by frequency only.  Scenario A gives
\* avg_duration_minutes 10, frequency_score 3 and priority "low"; an average
\* of exactly twice the threshold with the PR flag gives "high".
C23_AtThreshold ==
  Analyzed =>
    /\ \A n \in StatIdx :
         LET s == stats[n] IN
         /\ s.avg_duration_minutes = FromInt(threshold) =>
              /\ s.duration_score = FromInt(0)
              /\ s.combined_score = RMul(s.frequency_score, Rat(4, 10))
              /\ s.optimization_priority =
                   (IF RGreater(s.frequency_score, FromInt(10)) THEN "high"
                    ELSE IF RGreater(s.frequency_score, FromInt(5)) THEN "medium"
                    ELSE "low")
         /\ (s.avg_duration_minutes = FromInt(2 * threshold) /\ s.is_pr_triggered) =>
              s.optimization_priority = "high"
    /\ \A f \in {FromInt(3), FromInt(6), FromInt(11)}, pr, push \in BOOLEAN :
         _determine_optimization_priority(
             FromInt(threshold), f,
             [is_pr_triggered |-> pr, is_push_triggered |-> push], threshold)
           = (IF f = FromInt(11) THEN "high"
              ELSE IF f = FromInt(6) THEN "medium" ELSE "low")
    /\ ScenarioA =>
         /\ Len(stats) = 1
         /\ stats[1].avg_duration_minutes = FromInt(10)
         /\ stats[1].frequency_score = FromInt(3)
         /\ stats[1].optimization_priority = "low"

\* Scenario A was analysed.
C23_Witness ==
  /\ Analyzed
  /\ ScenarioA
  /\ stats[1].is_pr_triggered
  /\ stats[1].optimization_priority = "low"

\* C24 (as claimed): the event-string fallback is used for a group only when
\* no run of the group carries an attached trigger profile; whenever at least
\* one run of the group has an attached profile, that profile determines the
\* group's flags and score, wherever that run appears in the input order.
C24_AnyAttachedProfileDecides ==
  Analyzed =>
    \A n \in StatIdx :
      LET s == stats[n]
          attached == {i \in RunsOfStat(s) : runs[i].trigger_analysis # None}
      IN \A i \in attached :
           /\ s.is_pr_triggered = runs[i].trigger_analysis.is_pr_triggered
           /\ s.is_push_triggered = runs[i].trigger_analysis.is_push_triggered
           /\ s.trigger_frequency_score =
                runs[i].trigger_analysis.trigger_frequency_score

\* C25: analyze_workflows partitions its input exactly: the result has one
\* statistic for each distinct (repository, workflow_name) pair occurring in
\* the runs and none for any other pair, each statistic's total_runs is the
\* number of input runs with that pair (always >= 1), and the total_runs
\* values sum to the number of input runs.
C25_Partition ==
  LET pairs == {<<runs[i].repository, runs[i].workflow_name>> : i \in 1..Len(runs)}
      pairOf(n) == <<stats[n].repository, stats[n].workflow_name>>
  IN Analyzed =>
       /\ \A p \in pairs : Cardinality({n \in StatIdx : pairOf(n) = p}) = 1
       /\ \A n \in StatIdx : pairOf(n) \in pairs
       /\ \A n \in StatIdx :
            /\ stats[n].total_runs = Cardinality(RunsOfStat(stats[n]))
            /\ stats[n].total_runs >= 1
       /\ RSumSet([n \in StatIdx |-> FromInt(stats[n].total_runs)], StatIdx)
            = FromInt(Len(runs))

\* Runs of two workflows were analysed, the two runs of one workflow having
\* arrived with a run of the other between them.
C25_Witness ==
  /\ Analyzed
  /\ Len(stats) = 2
  /\ Len(runs) = 3
  /\ Key(runs[1]) # Key(runs[2])
  /\ Key(runs[1]) = Key(runs[3])
  /\ \E n \in StatIdx : stats[n].total_runs = 2

\* C26: the analyzer never mutates its inputs: across every call of
\* analyze_workflows, filter_problematic_workflows, get_repository_summary,
\* get_trend_analysis and get_workflow_patterns every run record passed in,
\* the trigger profile attached to it included, keeps its field values (the
\* derived is_high_frequency_trigger flag is written to a copy of the
\* profile), and the run list keeps its order and length.
C26_InputsUntouched == [][pc' = "analyzed" => runs' = runs]_vars

\* Two analyses have run over a group whose first run
\* carries an attached profile: the statistic has the derived flag set and
\* the run's own profile still has no such entry.
C26_Witness ==
  /\ op = "analyze_again"
  /\ runs # <<>>
  /\ runs[1].trigger_analysis # None
  /\ "is_high_frequency_trigger" \notin DOMAIN runs[1].trigger_analysis
  /\ \E n \in StatIdx :
       /\ 1 \in RunsOfStat(stats[n])
       /\ stats[n].is_high_frequency_trigger
       /\ result[n].is_high_frequency_trigger

(* ------------------------- pagination properties ----------------------- *)
\* While a pagination loop runs every page it got was full, and it never
\* asks for more pages than its limit.
PagingBounded ==
  (op \in {"get_workflow_runs", "get_organization_repositories"}) =>
    /\ result.requests <= (IF op = "get_workflow_runs" THEN 10 ELSE 50)
    /\ result.collected <= 100 * result.requests
    /\ cpc = "paging" => result.page = result.requests + 1

\* C27: the client's pagination loops always terminate, whatever the server
\* answers: get_workflow_runs stops at the first empty page, the first page
\* with fewer than 100 runs, or after requesting page 10, so it issues at
\* most 10 page requests per call; get_organization_repositories stops
\* likewise at the first empty or short page, on any request error, or after
\* requesting page 50, so it issues at most 50 page requests per call, even
\* if every page returned is full.
C27_PaginationTerminates ==
  /\ []PagingBounded
  /\ (cpc = "paging") ~> (cpc \in {"returned", "raised"})

\* get_workflow_runs returned after ten full pages of successful runs.
C27_Witness ==
  /\ op = "get_workflow_runs"
  /\ cpc = "returned"
  /\ result.requests = 10
  /\ result.collected = 1000

====
